---- MODULE Spec2Model ----
(***************************************************************************)
(* A model of scripts/wasl_processor.py (class WASLProcessor): the         *)
(* annotation normaliser, the per-video word timestamp index and the       *)
(* download -> segment -> pose -> join pipeline of process_dataset.         *)
(*                                                                         *)
(* Files are modelled by their stems: videos_dir is the set of stems of    *)
(* its *.mp4 files, pose_dir maps the stem of each *.json file to its      *)
(* content.  Stems are strings and a clip's stem is built by the same      *)
(* concatenation the code uses, so "a" + "_" + "x" and the video id "a_x"  *)
(* name the same file.  The external collaborators (yt_dlp, moviepy,       *)
(* the OpenPose binary) succeed or fail nondeterministically.              *)
(***************************************************************************)
EXTENDS FiniteSets, Integers, Sequences, TLC

VARIABLES
    annotations,      \* raw/WASL/annotations.json: sequence of raw records
    normDone,         \* _process_WASL_structure has run
    metadataFile,     \* metadata/wasl_metadata.json: sequence of entries
    metadata_cache,   \* self.metadata_cache
    calls,            \* number of _get_word_timestamps calls made (index spec)
    gets,             \* number of further get_WASL calls made (index spec)
    diskReads,        \* number of times the metadata artifact was json.load-ed
    lastVideo,        \* argument of the last _get_word_timestamps call
    lastResult,       \* its return value (a dict, see DictSet)
    pc,               \* position of the process in process_dataset
    runs,             \* number of process_dataset runs started
    dlQueue,          \* metadata entries the download loop has still to visit
    videosDir,        \* stems of the *.mp4 files in videos_dir
    poseDir,          \* stem -> content of the *.json files in pose_dir
    poseNaming,       \* how the installed pose binary names its output
    mappingFile,      \* <<>> or <<dict>>: metadata/word_pose_mapping.json
    videoTodo,        \* glob("*.mp4") results the for loop has still to visit
    curVideo,         \* video_path.stem of the loop iteration
    wordQueue,        \* word_timestamps.items() still to visit in split
    word_clips,       \* the list split_video_into_words builds
    clipQueue,        \* word_clips still to hand to process_with_openpose
    handleOpen,       \* the VideoFileClip of split_video_into_words is open
    raisedBy,         \* the call whose exception ended the run, or "none"
    fetched,          \* this run: video ids ydl.download fetched
    fetchFailed,      \* this run: video ids for which ydl.download raised
    errorLog,         \* this run: video ids logger.error reported
    clipsEver,        \* every run: <<video stem, word>> of clips written
    regenerated,      \* this run: pairs of clipsEver whose clip was rewritten
    clipsMade,        \* this run: <<video stem, word>> of clips written
    posesAttempted    \* this run: clip stems handed to OpenPose

normVars  == <<annotations, normDone>>
indexVars == <<calls, gets, diskReads, lastVideo, lastResult>>
pipeVars  == <<pc, runs, dlQueue, videosDir, poseDir, poseNaming,
               mappingFile, videoTodo,
               curVideo, wordQueue, word_clips, clipQueue, handleOpen,
               raisedBy, fetched, fetchFailed, errorLog, clipsEver,
               regenerated, clipsMade, posesAttempted>>
vars == <<normVars, metadataFile, metadata_cache, indexVars, pipeVars>>

(***************************************************************************)
(* Bounds of the model.                                                    *)
(***************************************************************************)
MaxRecs  == 2    \* raw annotation records in annotations.json
MaxLen   == 3    \* metadata entries in the index specification
MaxCalls == 3    \* calls made on one processor in the index specification
MaxMeta  == 2    \* metadata entries in the pipeline specification
MaxRuns  == 2    \* process_dataset runs over the same output directory
MaxFrames == 2   \* frames of a clip, each with its own pose file

BoundedSeq(S, n) == UNION {[1..k -> S] : k \in 0..n}

\* No process_dataset run has been made and the directories are empty.
DirsEmpty ==
    /\ runs = 0
    /\ dlQueue = <<>>
    /\ videosDir = {}
    /\ poseDir = {}
    /\ mappingFile = <<>>
    /\ videoTodo = {}
    /\ curVideo = ""
    /\ wordQueue = <<>>
    /\ word_clips = <<>>
    /\ clipQueue = <<>>
    /\ handleOpen = FALSE
    /\ raisedBy = "none"
    /\ fetched = {}
    /\ fetchFailed = {}
    /\ errorLog = {}
    /\ clipsEver = {}
    /\ regenerated = {}
    /\ clipsMade = {}
    /\ posesAttempted = {}

(***************************************************************************)
(* Python values.                                                          *)
(***************************************************************************)
\* A str, as distinct from any dict: PyStr(s) equals no metadata entry.
PyStr(s) == [str |-> s]

\* dict.get(key, default) on a raw record (a function on the keys present).
Get(entry, key, default) == IF key \in DOMAIN entry THEN entry[key] ELSE default

\* A dict is the sequence of its <<key, value>> items in insertion order.
DictKeys(d) == {d[i][1] : i \in DOMAIN d}
DictGet(d, k) == (CHOOSE i \in DOMAIN d : d[i][1] = k)
DictValue(d, k) == d[DictGet(d, k)][2]

\* d[k] = v of a mutant that keeps the first value bound to a key.
DictSetFirstWins(d, k, v) ==
    IF k \in DictKeys(d) THEN d ELSE Append(d, <<k, v>>)

\* d[k] = v: a new key is appended, an old key keeps its place and takes v.
DictSet(d, k, v) ==
    IF k \in DictKeys(d)
    THEN [i \in DOMAIN d |-> IF d[i][1] = k THEN <<k, v>> ELSE d[i]]
    ELSE Append(d, <<k, v>>)

(***************************************************************************)
(* _process_WASL_structure: the normalisation filter.                      *)
(***************************************************************************)
\* Python truthiness of entry.get(key): None (key absent) and '' are falsy.
Truthy(entry, key) == key \in DOMAIN entry /\ entry[key] # ""

\* Mutant: the interval test accepts start_time = end_time.
KeepRecordNonStrict(entry) ==
    /\ Truthy(entry, "video_id")
    /\ Truthy(entry, "word")
    /\ Get(entry, "start_time", 0) <= Get(entry, "end_time", 0)

\* Lines 105-114: video_id is truthy, word is truthy, start < end.
KeepRecord(entry) ==
    /\ Truthy(entry, "video_id")
    /\ Truthy(entry, "word")
    /\ Get(entry, "start_time", 0) < Get(entry, "end_time", 0)

\* Lines 115-120: the canonical entry appended for a kept record.
Canonical(entry) ==
    [video_id   |-> entry["video_id"],
     word       |-> entry["word"],
     start_time |-> Get(entry, "start_time", 0),
     end_time   |-> Get(entry, "end_time", 0)]

RECURSIVE NormalizeFrom(_, _, _)
NormalizeFrom(recs, i, metadata) ==
    IF i > Len(recs) THEN metadata
    ELSE NormalizeFrom(recs, i + 1,
                       IF KeepRecord(recs[i])
                       THEN Append(metadata, Canonical(recs[i]))
                       ELSE metadata)

\* Lines 103-120: metadata = [] and the loop over the annotations.
Normalize(recs) == NormalizeFrom(recs, 1, <<>>)

\* The raw records of the model: each of the four keys is absent (outside
\* the record's domain) or holds one of a few values.
RawKeys == {"video_id", "word", "start_time", "end_time"}
RawRecord(K, v, w, s, e) ==
    [k \in K |-> CASE k = "video_id"   -> v
                   [] k = "word"       -> w
                   [] k = "start_time" -> s
                   [] k = "end_time"   -> e]
RawRecords ==
    {RawRecord(K, v, w, s, e) :
        K \in SUBSET RawKeys, v \in {"", "a"}, w \in {"", "x"},
        s \in {0, 1}, e \in {1, 2}}

\* The annotations file is any sequence of at most MaxRecs raw records.
InitNorm ==
    /\ annotations \in BoundedSeq(RawRecords, MaxRecs)
    /\ normDone = FALSE
    /\ metadataFile = <<>>
    /\ metadata_cache = <<>>
    /\ calls = 0
    /\ gets = 0
    /\ diskReads = 0
    /\ lastVideo = ""
    /\ lastResult = <<>>
    /\ pc = "idle"
    /\ poseNaming = "stem"
    /\ DirsEmpty

\* _process_WASL_structure, lines 85-127: normalise and write the artifact.
ProcessWASLStructure ==
    /\ ~normDone
    /\ metadataFile' = Normalize(annotations)
    /\ normDone' = TRUE
    /\ UNCHANGED <<annotations, metadata_cache, indexVars, pipeVars>>

NextNorm == ProcessWASLStructure

SpecNorm == InitNorm /\ [][NextNorm]_vars

(***************************************************************************)
(* _get_word_timestamps: the timestamp index and its cache.                *)
(***************************************************************************)
\* Line 131, `video_id not in self.metadata_cache`: the str video_id is
\* compared with the elements of the cache, which are the entry dicts of
\* the loaded list (the cache starts as {}, which contains nothing).
CacheMiss(video_id, cache) ==
    ~ \E i \in DOMAIN cache : cache[i] = PyStr(video_id)

\* Lines 131-138: the cache after the load-if-missing step.
LoadCache(video_id, cache, file) ==
    IF CacheMiss(video_id, cache) THEN file ELSE cache

\* Lines 141-142: the entries of this video, in stored order.
VideoEntries(cache, video_id) ==
    SelectSeq(cache, LAMBDA entry : entry.video_id = video_id)

RECURSIVE TimestampsFrom(_, _, _)
TimestampsFrom(entries, i, word_timestamps) ==
    IF i > Len(entries) THEN word_timestamps
    ELSE TimestampsFrom(entries, i + 1,
             DictSet(word_timestamps, entries[i].word,
                     <<entries[i].start_time, entries[i].end_time>>))

\* Lines 140-156: the dict returned for video_id from the loaded cache.
WordTimestamps(cache, video_id) ==
    LET video_entries == VideoEntries(cache, video_id)
    IN  IF video_entries = <<>> THEN <<>>
        ELSE TimestampsFrom(video_entries, 1, <<>>)

\* Canonical metadata of the index specification.
IndexVideoIds == {"a", "b"}
QueryIds == IndexVideoIds \cup {"c"}
Words == {"x", "y"}
\* The entries of the data sets of the index specification: a word signed
\* twice in one video, at different times, and once in another video.
IndexEntries ==
    {[video_id |-> "a", word |-> "x", start_time |-> 0, end_time |-> 1],
     [video_id |-> "a", word |-> "x", start_time |-> 1, end_time |-> 2],
     [video_id |-> "b", word |-> "x", start_time |-> 0, end_time |-> 1]}
IndexDatasets == BoundedSeq(IndexEntries, MaxLen)

\* get_WASL has run: the artifact holds the normalised annotations.
InitIndex ==
    /\ annotations \in IndexDatasets
    /\ normDone = TRUE
    /\ metadataFile = Normalize(annotations)
    /\ metadata_cache = <<>>
    /\ calls = 0
    /\ gets = 0
    /\ diskReads = 0
    /\ lastVideo = ""
    /\ lastResult = <<>>
    /\ pc = "idle"
    /\ poseNaming = "stem"
    /\ DirsEmpty

\* One call of _get_word_timestamps(video_id), lines 129-156.
GetWordTimestamps(video_id) ==
    /\ calls + gets < MaxCalls
    /\ calls' = calls + 1
    /\ diskReads' = diskReads + (IF CacheMiss(video_id, metadata_cache)
                                 THEN 1 ELSE 0)
    /\ metadata_cache' = LoadCache(video_id, metadata_cache, metadataFile)
    /\ lastVideo' = video_id
    /\ lastResult' = WordTimestamps(metadata_cache', video_id)
    /\ UNCHANGED <<normVars, metadataFile, gets, pipeVars>>

\* get_WASL (lines 38-83) is called again on the same processor, and is
\* served any data set.  The call is not all-or-nothing: the download or
\* the extraction may raise before annotations.json is replaced (lines
\* 56-72), or the extraction raises after it was replaced (line 72, a later
\* member of the archive is damaged), both re-raised at line 83 with the
\* artifact untouched; or _process_WASL_structure rewrites the artifact
\* from the new annotations (lines 122-125).
GetWASLAgain ==
    /\ calls + gets < MaxCalls
    /\ gets' = gets + 1
    /\ \/ \E recs \in IndexDatasets :
            /\ annotations' = recs
            /\ metadataFile' = Normalize(recs)
       \/ /\ annotations' \in IndexDatasets \cup {annotations}
          /\ UNCHANGED metadataFile
    /\ normDone' = TRUE
    /\ UNCHANGED <<metadata_cache, calls, diskReads, lastVideo, lastResult,
                   pipeVars>>

NextIndex ==
    \/ \E video_id \in QueryIds : GetWordTimestamps(video_id)
    \/ GetWASLAgain

SpecIndex == InitIndex /\ [][NextIndex]_vars

(***************************************************************************)
(* process_dataset: download, segment, extract poses, join.                *)
(***************************************************************************)
VideoIds == {"a", "a_x"}
\* The (video, word) pairs annotated in the data set of the pipeline runs:
\* a video with two words, a word signed in two videos, and a video whose
\* id is the stem of the other video's clip.
PipePairs == {<<"a", "x">>, <<"a", "y">>, <<"a_x", "y">>}
PipeEntries ==
    {e \in [video_id : VideoIds, word : Words,
            start_time : {0}, end_time : {1}] :
        <<e.video_id, e.word>> \in PipePairs}

\* Line 188, f"{video_path.stem}_{word}.mp4": the stem of a word clip.
ClipStem(stem, word) == stem \o "_" \o word

\* Line 197, f"{video_path.stem}.json": the pose file of a clip that
\* process_with_openpose computes (and hands to nobody).
PoseStem(clip_stem) == clip_stem

\* Lines 200-206: the binary is given the clip and --write_json pose_dir,
\* not a file name; it names its output itself: <clip>.json, or, as
\* OpenPose documents, one <clip>_<frame, 12 digits>_keypoints.json per
\* frame of the clip, frames numbered from 0.
FrameDigits == <<"0", "1", "2", "3", "4", "5", "6", "7", "8", "9">>
BinaryPoseStem(naming, clip_stem, frame) ==
    IF naming = "stem" THEN clip_stem
    ELSE clip_stem \o "_00000000000" \o FrameDigits[frame + 1]
                   \o "_keypoints"

\* The number of pose files the binary can write for one clip.
FrameCounts(naming) == IF naming = "stem" THEN {1} ELSE 1..MaxFrames

\* Line 221, f"{video_id}.json": the pose file the joiner looks up.
JoinStem(video_id) == video_id

PoseExists(dir, stem) == \E p \in dir : p.stem = stem
PoseFile(dir, stem) == CHOOSE p \in dir : p.stem = stem
\* The binary writes (or overwrites) the file of that stem in pose_dir.
WritePose(dir, stem, parseable) ==
    {p \in dir : p.stem # stem} \cup {[stem |-> stem, parseable |-> parseable]}

RECURSIVE WritePoses(_, _, _, _, _)
\* The binary writes the pose files of frames k .. Len(parseable) - 1 of a
\* clip, parseable[k + 1] telling whether the file of frame k is well-formed.
WritePoses(dir, naming, clip_stem, parseable, k) ==
    IF k >= Len(parseable) THEN dir
    ELSE WritePoses(WritePose(dir, BinaryPoseStem(naming, clip_stem, k),
                              parseable[k + 1]),
                    naming, clip_stem, parseable, k + 1)

\* The script starts on empty directories: WASLProcessor() is constructed
\* (lines 21-36, 259) and no data set has been fetched.
Init ==
    /\ annotations = <<>>
    /\ normDone = FALSE
    /\ metadataFile = <<>>
    /\ metadata_cache = <<>>
    /\ calls = 0
    /\ gets = 0
    /\ diskReads = 0
    /\ lastVideo = ""
    /\ lastResult = <<>>
    /\ pc = "start"
    /\ poseNaming \in {"stem", "frames"}
    /\ DirsEmpty

fileVars == <<videosDir, poseDir, mappingFile>>
loopVars == <<videoTodo, curVideo, wordQueue, word_clips, clipQueue>>
dlHist   == <<fetched, fetchFailed, errorLog>>
segHist  == <<clipsEver, regenerated, clipsMade>>
poseHist == <<posesAttempted>>
fixed    == <<normVars, metadataFile, indexVars, poseNaming>>

\* The data sets the download of get_WASL can yield, on every start of
\* the script: any sequence of at most MaxMeta well-formed records.
ServedDatasets == BoundedSeq(PipeEntries, MaxMeta)

\* get_WASL, lines 38-83 and 261: the data set is downloaded and extracted
\* and _process_WASL_structure writes the metadata artifact; or the call
\* raises, re-raised at line 83, which ends the script: before
\* annotations.json was replaced (lines 56-72), or after it (line 72, a
\* later member of the archive is damaged), the artifact untouched.
GetWASL ==
    /\ pc = "start"
    /\ \/ /\ \E recs \in ServedDatasets :
                /\ annotations' = recs
                /\ metadataFile' = Normalize(recs)
          /\ normDone' = TRUE
          /\ pc' = "idle"
          /\ UNCHANGED raisedBy
       \/ /\ pc' = "raised"
          /\ raisedBy' = "get_WASL"
          /\ annotations' \in ServedDatasets \cup {annotations}
          /\ UNCHANGED <<normDone, metadataFile>>
    /\ UNCHANGED <<metadata_cache, indexVars, poseNaming, runs, dlQueue,
                   fileVars, loopVars, handleOpen, dlHist, segHist, poseHist>>

\* process_dataset is entered (lines 232-237) and download_wasl_videos loads
\* the metadata it will iterate (lines 162-163).
StartProcess ==
    /\ pc = "idle"
    /\ runs < MaxRuns
    /\ runs' = runs + 1
    /\ pc' = "download"
    /\ dlQueue' = metadataFile
    /\ fetched' = {} /\ fetchFailed' = {} /\ errorLog' = {}
    /\ regenerated' = {} /\ clipsMade' = {} /\ posesAttempted' = {}
    /\ UNCHANGED <<fixed, metadata_cache, fileVars, loopVars, handleOpen,
                   raisedBy, clipsEver>>

\* Mutant: the download loop has no try/except, the error ends the run.
OnFetchErrorAbort(video_id) ==
    /\ errorLog' = errorLog
    /\ pc' = "raised"
    /\ raisedBy' = "ydl.download"
    /\ dlQueue' = dlQueue

\* Lines 178-179: the except clause logs the video and the loop goes on.
OnFetchError(video_id) ==
    /\ errorLog' = errorLog \cup {video_id}
    /\ pc' = pc
    /\ raisedBy' = raisedBy
    /\ dlQueue' = Tail(dlQueue)

\* One iteration of the download loop, lines 173-179.
DownloadEntry ==
    /\ pc = "download"
    /\ dlQueue # <<>>
    /\ LET video_id == Head(dlQueue).video_id
       IN  IF video_id \in videosDir
           THEN /\ dlQueue' = Tail(dlQueue)
                /\ UNCHANGED <<pc, raisedBy, videosDir, dlHist>>
           ELSE \/ /\ videosDir' = videosDir \cup {video_id}
                   /\ fetched' = fetched \cup {video_id}
                   /\ dlQueue' = Tail(dlQueue)
                   /\ UNCHANGED <<pc, raisedBy, fetchFailed, errorLog>>
                \/ /\ fetchFailed' = fetchFailed \cup {video_id}
                   /\ OnFetchError(video_id)
                   /\ UNCHANGED <<videosDir, fetched>>
    /\ UNCHANGED <<fixed, metadata_cache, runs, poseDir, mappingFile,
                   loopVars, handleOpen, segHist, poseHist>>

\* Line 240: the download loop is over and list(glob("*.mp4")) is taken.
GlobVideos ==
    /\ pc = "download"
    /\ dlQueue = <<>>
    /\ videoTodo' = videosDir
    /\ pc' = "videos"
    /\ UNCHANGED <<fixed, metadata_cache, runs, dlQueue, fileVars, curVideo,
                   wordQueue, word_clips, clipQueue, handleOpen, raisedBy,
                   dlHist, segHist, poseHist>>

\* Lines 240-245 and 183-184: the loop takes the next video (glob yields
\* in no fixed order), builds its timestamp index and opens the video.
BeginVideo ==
    /\ pc = "videos"
    /\ \E stem \in videoTodo :
        /\ videoTodo' = videoTodo \ {stem}
        /\ curVideo' = stem
        /\ metadata_cache' = LoadCache(stem, metadata_cache, metadataFile)
        /\ \/ /\ handleOpen' = TRUE
              /\ wordQueue' = WordTimestamps(metadata_cache', stem)
              /\ word_clips' = <<>>
              /\ pc' = "segment"
              /\ UNCHANGED raisedBy
           \/ /\ pc' = "raised"
              /\ raisedBy' = "VideoFileClip"
              /\ UNCHANGED <<handleOpen, wordQueue, word_clips>>
    /\ UNCHANGED <<fixed, runs, dlQueue, fileVars, clipQueue, dlHist,
                   segHist, poseHist>>

\* Line 189, clip.write_videofile(output_path): the file is (re)written.
WriteClip(dir, stem) == dir \cup {stem}

\* One iteration of the loop of split_video_into_words, lines 186-190.
\* subclip or write_videofile may raise: nothing catches it.
SegmentWord ==
    /\ pc = "segment"
    /\ wordQueue # <<>>
    /\ LET word == Head(wordQueue)[1]
           output == ClipStem(curVideo, word)
       IN  \/ /\ videosDir' = WriteClip(videosDir, output)
              /\ regenerated' = regenerated \cup
                                  ({<<curVideo, word>>} \cap clipsEver)
              /\ clipsEver' = clipsEver \cup {<<curVideo, word>>}
              /\ clipsMade' = clipsMade \cup {<<curVideo, word>>}
              /\ word_clips' = Append(word_clips, <<word, output>>)
              /\ wordQueue' = Tail(wordQueue)
              /\ UNCHANGED <<pc, raisedBy>>
           \/ /\ pc' = "raised"
              /\ raisedBy' = "write_videofile"
              /\ UNCHANGED <<videosDir, segHist, word_clips, wordQueue>>
    /\ UNCHANGED <<fixed, metadata_cache, runs, dlQueue, poseDir, mappingFile,
                   videoTodo, curVideo, clipQueue, handleOpen, dlHist,
                   poseHist>>

\* Lines 192-193 and 248: video.close(), return word_clips; the caller
\* starts the loop over the clips.
CloseVideo ==
    /\ pc = "segment"
    /\ wordQueue = <<>>
    /\ handleOpen' = FALSE
    /\ clipQueue' = word_clips
    /\ pc' = "pose"
    /\ UNCHANGED <<fixed, metadata_cache, runs, dlQueue, fileVars, videoTodo,
                   curVideo, wordQueue, word_clips, raisedBy, dlHist,
                   segHist, poseHist>>

\* process_with_openpose(clip_path), lines 195-212: the binary writes its
\* pose files (each well-formed or not) under the names it chooses, and
\* exits with 0 or not, which is caught and logged (lines 211-212); or it
\* writes nothing; or subprocess.run raises another error (binary absent
\* or not executable), which nothing catches.
ExtractPose ==
    /\ pc = "pose"
    /\ clipQueue # <<>>
    /\ LET clip == Head(clipQueue)[2]
       IN  /\ posesAttempted' = posesAttempted \cup {clip}
           /\ \/ /\ \E n \in FrameCounts(poseNaming) :
                      \E parseable \in [1..n -> BOOLEAN] :
                         poseDir' = WritePoses(poseDir, poseNaming, clip,
                                               parseable, 0)
                 /\ clipQueue' = Tail(clipQueue)
                 /\ UNCHANGED <<pc, raisedBy>>
              \/ /\ clipQueue' = Tail(clipQueue)
                 /\ UNCHANGED <<poseDir, pc, raisedBy>>
              \/ /\ pc' = "raised"
                 /\ raisedBy' = "subprocess.run"
                 /\ UNCHANGED <<poseDir, clipQueue>>
    /\ UNCHANGED <<fixed, metadata_cache, runs, dlQueue, videosDir,
                   mappingFile, videoTodo, curVideo, wordQueue, word_clips,
                   handleOpen, dlHist, segHist>>

\* The loop over the clips is over: back to the loop over the videos.
EndVideo ==
    /\ pc = "pose"
    /\ clipQueue = <<>>
    /\ pc' = "videos"
    /\ UNCHANGED <<fixed, metadata_cache, runs, dlQueue, fileVars, loopVars,
                   handleOpen, raisedBy, dlHist, segHist, poseHist>>

RECURSIVE JoinFrom(_, _, _, _)
\* Lines 216-226: the loop of create_word_pose_mapping; json.load of a
\* pose file that does not parse raises.
JoinFrom(metadata, i, mapping, dir) ==
    IF i > Len(metadata) THEN [raised |-> FALSE, mapping |-> mapping]
    ELSE LET word == metadata[i].word
             pose_file == JoinStem(metadata[i].video_id)
         IN  IF PoseExists(dir, pose_file)
             THEN IF PoseFile(dir, pose_file).parseable
                  THEN JoinFrom(metadata, i + 1,
                                DictSet(mapping, word, pose_file), dir)
                  ELSE [raised |-> TRUE, mapping |-> mapping]
             ELSE JoinFrom(metadata, i + 1, mapping, dir)

\* Lines 240-252: the loop over the videos is exhausted.
JoinReady == videoTodo = {}

\* Lines 251-254 and 214-230: the metadata is read again and joined with
\* the pose files; the mapping is written unless the join raised.
CreateWordPoseMapping ==
    /\ pc = "videos"
    /\ JoinReady
    /\ LET join == JoinFrom(metadataFile, 1, <<>>, poseDir)
       IN  IF join.raised
           THEN /\ pc' = "raised"
                /\ raisedBy' = "json.load"
                /\ UNCHANGED mappingFile
           ELSE /\ pc' = "done"
                /\ mappingFile' = <<join.mapping>>
                /\ UNCHANGED raisedBy
    /\ UNCHANGED <<fixed, metadata_cache, runs, dlQueue, videosDir, poseDir,
                   loopVars, handleOpen, dlHist, segHist, poseHist>>

\* The process has ended (normally or by the exception) and the script is
\* started again on the same directories: a new WASLProcessor (lines 21-36,
\* 259), the old process's open handles gone with it.
RestartProcess ==
    /\ pc \in {"done", "raised"}
    /\ runs < MaxRuns
    /\ pc' = "start"
    /\ raisedBy' = "none"
    /\ metadata_cache' = <<>>
    /\ handleOpen' = FALSE
    /\ dlQueue' = <<>>
    /\ videoTodo' = {} /\ curVideo' = "" /\ wordQueue' = <<>>
    /\ word_clips' = <<>> /\ clipQueue' = <<>>
    /\ UNCHANGED <<fixed, runs, fileVars, dlHist, segHist, poseHist>>

Next ==
    \/ GetWASL
    \/ StartProcess
    \/ DownloadEntry
    \/ GlobVideos
    \/ BeginVideo
    \/ SegmentWord
    \/ CloseVideo
    \/ ExtractPose
    \/ EndVideo
    \/ CreateWordPoseMapping
    \/ RestartProcess

Spec == Init /\ [][Next]_vars

(***************************************************************************)
(* Properties.                                                             *)
(***************************************************************************)
\* The claim's own reading of a raw record: both names non-empty and
\* start_time (default 0) strictly below end_time (default 0).
ClaimedKept(r) ==
    /\ "video_id" \in DOMAIN r /\ r["video_id"] # ""
    /\ "word" \in DOMAIN r /\ r["word"] # ""
    /\ (IF "start_time" \in DOMAIN r THEN r["start_time"] ELSE 0)
         < (IF "end_time" \in DOMAIN r THEN r["end_time"] ELSE 0)
KeptIndices == {i \in DOMAIN annotations : ClaimedKept(annotations[i])}
\* The index in annotations of the k-th kept record.
KthKept(k) ==
    CHOOSE i \in KeptIndices : Cardinality({j \in KeptIndices : j <= i}) = k

\* C1: once the normaliser has run, the written metadata holds exactly the
\* raw records with non-empty video_id and word and start_time < end_time
\* (absent times read as 0), one entry per such record, in input order.
C1_NormalizationFilter ==
    normDone =>
        /\ Len(metadataFile) = Cardinality(KeptIndices)
        /\ \A k \in DOMAIN metadataFile :
             LET r == annotations[KthKept(k)]
             IN  /\ metadataFile[k].video_id = r["video_id"]
                 /\ metadataFile[k].word = r["word"]
                 /\ metadataFile[k].start_time =
                      (IF "start_time" \in DOMAIN r THEN r["start_time"] ELSE 0)
                 /\ metadataFile[k].end_time =
                      (IF "end_time" \in DOMAIN r THEN r["end_time"] ELSE 0)

\* C1 witness: the normaliser ran on two well-named records, dropped the
\* first for start_time >= end_time and kept the second.
C1_Witness ==
    /\ normDone
    /\ Len(annotations) = 2
    /\ Truthy(annotations[1], "video_id") /\ Truthy(annotations[1], "word")
    /\ ~ClaimedKept(annotations[1])
    /\ "start_time" \notin DOMAIN annotations[2]
    /\ Len(metadataFile) = 1
    /\ metadataFile[1].start_time = 0

\* The stored entries of a video and word, by position in the loaded list.
Matches(video_id, word) ==
    {i \in DOMAIN metadata_cache :
        /\ metadata_cache[i].video_id = video_id
        /\ metadata_cache[i].word = word}
LastMatch(video_id, word) ==
    CHOOSE i \in Matches(video_id, word) :
        \A j \in Matches(video_id, word) : j <= i

\* C2: the mapping a call returns has exactly the words stored under the
\* queried video, each bound once, to the interval of the last stored entry
\* of that video and word; it is empty when the video has no entry.
C2_TimestampIndex ==
    calls > 0 =>
        /\ DictKeys(lastResult) =
             {w \in Words : Matches(lastVideo, w) # {}}
        /\ Cardinality(DictKeys(lastResult)) = Len(lastResult)
        /\ \A w \in DictKeys(lastResult) :
             LET e == metadata_cache[LastMatch(lastVideo, w)]
             IN  DictValue(lastResult, w) = <<e.start_time, e.end_time>>

\* C2 witness: video "a" was queried on metadata holding two different
\* intervals for its word "x", the earlier one stored last, and the same
\* word under another video, and the result binds "x" alone.
C2_Witness ==
    /\ calls > 0
    /\ lastVideo = "a"
    /\ Cardinality(Matches("a", "x")) = 2
    /\ \E i, j \in Matches("a", "x") :
         i < j /\ metadata_cache[i].end_time > metadata_cache[j].end_time
    /\ Matches("b", "x") # {}
    /\ DictKeys(lastResult) = {"x"}

\* C8: the metadata artifact is read from disk at most once per processor.
C8_LoadOnce == diskReads <= 1

\* C3: no (video, word) clip that was produced before is produced again.
C3_ClipCreatedOnce == regenerated = {}

\* The download loop of the run has ended.
DownloadOver ==
    \/ pc \in {"videos", "segment", "pose", "done"}
    \/ pc = "raised" /\ raisedBy \in {"VideoFileClip", "write_videofile",
                                       "subprocess.run", "json.load"}

\* The loop over the videos has ended normally.
SegmentationOver == pc = "done" \/ (pc = "raised" /\ raisedBy = "json.load")

\* C4: a failed fetch never ends the run, it is reported for just the
\* videos whose fetch failed, every referenced video is present or had a
\* failed fetch once the download loop is over, and once the loop over the
\* videos is over every fetched video has a clip for each of its words.
C4_AcquisitionFailureIsolated ==
    /\ raisedBy # "ydl.download"
    /\ errorLog = fetchFailed
    /\ fetched \subseteq videosDir
    /\ DownloadOver =>
         \A i \in DOMAIN metadataFile :
            \/ metadataFile[i].video_id \in videosDir
            \/ metadataFile[i].video_id \in fetchFailed
    /\ SegmentationOver =>
         \A i \in DOMAIN metadataFile :
            LET e == metadataFile[i]
            IN  e.video_id \in fetched =>
                  /\ <<e.video_id, e.word>> \in clipsMade
                  /\ ClipStem(e.video_id, e.word) \in videosDir

\* C4 witness: a run completed in which the fetch of one video failed for
\* good and another video was fetched and cut into a clip.
C4_Witness ==
    /\ pc = "done"
    /\ \E v \in fetchFailed \ videosDir :
         \E u \in fetched \ {v} :
            \E w \in Words : <<u, w>> \in clipsMade

\* C5: a word whose segmentation fails does not end the call, and no later
\* word of the mapping is left unattempted.
C5_WordFailureIsolated ==
    raisedBy = "write_videofile" => (pc # "raised" /\ Tail(wordQueue) = <<>>)

\* C6: a pose file that does not parse never keeps the join from going on
\* and writing the mapping.
C6_BadPoseFileSkipped == raisedBy # "json.load"

\* C9: the source video's handle is open only while split_video_into_words
\* is running.
C9_HandleReleased == handleOpen => pc = "segment"

\* C7: the stages are batched over the whole collection: acquisition is
\* over before any segmentation, and the segmentation of every video is
\* over before any pose extraction.
C7_StagesStrictlySequential ==
    /\ (pc \in {"segment", "pose"} \/ clipsMade # {}) => dlQueue = <<>>
    /\ posesAttempted # {} => (videoTodo = {} /\ pc # "segment")

\* C10: after a first run that completed, every entry whose clip was made
\* and whose pose file was written well-formed has its word in the mapping,
\* bound to a pose the extractor wrote in this run.
C10_JoinFindsExtractorOutput ==
    (pc = "done" /\ runs = 1) =>
        \A i \in DOMAIN metadataFile :
           LET e == metadataFile[i]
               clip == ClipStem(e.video_id, e.word)
           IN  (/\ <<e.video_id, e.word>> \in clipsMade
                /\ PoseExists(poseDir, PoseStem(clip))
                /\ PoseFile(poseDir, PoseStem(clip)).parseable)
               => /\ mappingFile # <<>>
                  /\ e.word \in DictKeys(mappingFile[1])
                  /\ DictValue(mappingFile[1], e.word) \in posesAttempted

====
